---------------------------- MODULE Spec2Model ----------------------------
(***************************************************************************)
(* A model of the biscuit matching engine: the Cache (src/matcher.rs),     *)
(* the Matcher and its roster of Comparers (src/matcher.rs), the public    *)
(* entry points of the process-wide Matcher (src/lib.rs) and the message   *)
(* values scripts read (src/message.rs).                                   *)
(*                                                                         *)
(* Six specifications share the state:                                     *)
(*   CacheSpec  drives Cache::update directly with arbitrary arguments;    *)
(*   Spec       drives the public entry points initialize and input, the   *)
(*              scripts reaching the Cache through the identify host call; *)
(*   HostSpec   drives the host functions identify and isKnown and the env *)
(*              global as one script can;                                  *)
(*   RequireSpec drives the require host call of one script context;       *)
(*   MessageSpec drives the getters of the messages handed to a script;    *)
(*   ApiSpec    drives initialize, input and cache from several threads.   *)
(***************************************************************************)
EXTENDS Integers, Sequences, FiniteSets, TLC

VARIABLES
    cache,      \* Matcher.cache: the shared Cache
    calls,      \* history: every Cache::update call made, in call order
    comparers,  \* Matcher.comparers: the roster
    config,     \* Matcher.config (its script_path)
    pc,         \* what the holder of the MATCHER lock is executing
    listing,    \* the entries path.read_dir() yields during this initialize
    idx,        \* position of the running loop (directory entries or roster)
    feed,       \* arguments of the input call in progress
    invoked,    \* history: Comparer::compare calls made by the feed in progress
    loaded,     \* history: Comparer::from results of the initialize in progress
    warnings,   \* history: warn! records emitted by the call in progress
    ret,        \* what the last public call returned
    passes,     \* number of initialize calls that reached the Matcher
    passBase,   \* Len(calls) when the latest initialize began
    host,       \* the host function call a script has in progress, or made last
    cacheLock,  \* the Cache mutex: "free", or what holds it
    env,        \* the env global of the script's sandbox
    active,     \* the threads that hold the MATCHER lock
    owners,     \* per roster entry, the thread its script context was built on
    snapshot,   \* what the latest cache() call returned
    exports,    \* module.exports of the script's sandbox
    evals,      \* the files require has evaluated, in order
    required,   \* the latest require call: its file and what it returned
    receiver,   \* the message value the script calls the getters on
    reply      \* the latest getter call and what it returned

vars == <<cache, calls, comparers, config, pc, listing, idx, feed, invoked,
          loaded, warnings, ret, passes, passBase, host, cacheLock, env,
          active, owners, snapshot, exports, evals, required, receiver,
          reply>>

requireVars == <<exports, evals, required>>

messageVars == <<receiver, reply>>

hostVars == <<host, cacheLock, env, requireVars, messageVars>>

apiVars == <<active, owners, snapshot>>

matcherVars == <<comparers, config, pc, listing, idx, feed, invoked, loaded,
                 warnings, ret, passes, passBase>>

---------------------------------------------------------------------------
(* Bounds of the model. *)

\* Cache::update calls made by CacheSpec.
MaxCalls == 3

\* identify calls made by scripts under Spec.
MaxIdentify == 2

\* initialize calls under Spec.
MaxPasses == 2

\* Files evaluated by require under RequireSpec.
MaxRequires == 3

---------------------------------------------------------------------------
(* Value domains. *)

\* u16: the width of a packet id and of a field id.
U16Max == 65535

\* Guessed packet names.
Names == {"Foo", "Bar"}

\* Packet ids fed to the engine and named by scripts.
PacketIds == {1, 2}

\* MessageField values.
MessageField(k) == [field_name |-> "f", field_type |-> "uint32", field_id |-> k]

Fields == {MessageField(1), MessageField(2)}

\* The field descriptors scripts pass to identify under Spec.
ScriptFields == {MessageField(1)}

---------------------------------------------------------------------------
(* Cache *)

\* Cache::default()
EmptyCache ==
    [known_names |-> <<>>, known_ids |-> <<>>, id_map |-> <<>>,
     name_map |-> <<>>, messages |-> <<>>]

\* HashMap::insert: the new value replaces the one stored under the key.
Insert(map, key, value) == (key :> value) @@ map

\* Cache::id_known
IdKnown(c, id) == id \in DOMAIN c.id_map

\* Cache::name_known
NameKnown(c, name) == \E i \in 1..Len(c.known_names) : c.known_names[i] = name

\* Faulty variants of Cache::update: the id is never recorded; the parallel
\* sequences are pushed on every call; a known id is remapped.
UpdateForgetsId(c, message_name, packet_id, field) ==
    LET fields == IF message_name \in DOMAIN c.messages
                  THEN c.messages[message_name] ELSE <<>>
    IN  [c EXCEPT !.messages = Insert(@, message_name, Append(fields, field))]

UpdateAlwaysPushes(c, message_name, packet_id, field) ==
    LET c1 == [c EXCEPT !.known_names = Append(@, message_name),
                        !.known_ids = Append(@, packet_id),
                        !.id_map = IF packet_id \in DOMAIN @ THEN @
                                   ELSE Insert(@, packet_id, message_name),
                        !.name_map = IF packet_id \in DOMAIN c.id_map THEN @
                                     ELSE Insert(@, message_name, packet_id)]
        fields == IF message_name \in DOMAIN c1.messages
                  THEN c1.messages[message_name] ELSE <<>>
    IN  [c1 EXCEPT !.messages = Insert(@, message_name, Append(fields, field))]

UpdateLastWriteWins(c, message_name, packet_id, field) ==
    LET c1 == IF packet_id \notin DOMAIN c.id_map
              THEN [c EXCEPT !.known_names = Append(@, message_name),
                             !.known_ids = Append(@, packet_id),
                             !.id_map = Insert(@, packet_id, message_name),
                             !.name_map = Insert(@, message_name, packet_id)]
              ELSE [c EXCEPT !.id_map = Insert(@, packet_id, message_name),
                             !.name_map = Insert(@, message_name, packet_id)]
        fields == IF message_name \in DOMAIN c1.messages
                  THEN c1.messages[message_name] ELSE <<>>
    IN  [c1 EXCEPT !.messages = Insert(@, message_name, Append(fields, field))]

\* Faulty variant of Cache::update: the name is pushed on every call, the id
\* only when it is new.
UpdatePushesNameAlways(c, message_name, packet_id, field) ==
    LET c0 == [c EXCEPT !.known_names = Append(@, message_name)]
        c1 == IF packet_id \notin DOMAIN c.id_map
              THEN [c0 EXCEPT !.known_ids = Append(@, packet_id),
                              !.id_map = Insert(@, packet_id, message_name),
                              !.name_map = Insert(@, message_name, packet_id)]
              ELSE c0
        fields == IF message_name \in DOMAIN c1.messages
                  THEN c1.messages[message_name] ELSE <<>>
    IN  [c1 EXCEPT !.messages = Insert(@, message_name, Append(fields, field))]

\* Cache::update
Update(c, message_name, packet_id, field) ==
    LET c1 == IF packet_id \notin DOMAIN c.id_map
              THEN [c EXCEPT !.known_names = Append(@, message_name),
                             !.known_ids = Append(@, packet_id),
                             !.id_map = Insert(@, packet_id, message_name),
                             !.name_map = Insert(@, message_name, packet_id)]
              ELSE c
        fields == IF message_name \in DOMAIN c1.messages
                  THEN c1.messages[message_name] ELSE <<>>
    IN  [c1 EXCEPT !.messages = Insert(@, message_name, Append(fields, field))]

\* One recorded Cache::update call.
Call(name, id, field) == [name |-> name, id |-> id, field |-> field]

\* The Cache a sequence of update calls builds from the empty Cache.
RECURSIVE Replay(_, _)
Replay(c, history) ==
    IF history = <<>> THEN c
    ELSE Replay(Update(c, Head(history).name, Head(history).id, Head(history).field),
                Tail(history))

---------------------------------------------------------------------------
(* Initial state: Matcher::new() behind the MATCHER lazy_static. *)

NoFeed == [id |-> 0, header |-> "none", data |-> "none", base |-> 0]

NoReturn == [op |-> "none", status |-> "none"]

\* Config::default().script_path
DefaultScriptPath == "scripts"

\* No host function call made yet.
NoHost == [pc |-> "idle", fn |-> "none", args |-> <<>>, result |-> "none"]

\* A script value: its type, for an object its class and the fields behind
\* it, for a primitive its text.
JsValue(type, class, value, inner) ==
    [type |-> type, class |-> class, value |-> value, inner |-> inner]

JsUndefined == JsValue("undefined", "", "", <<>>)

\* No getter called yet.
NoAnswer == [fn |-> "none", arg |-> 0, ok |-> TRUE, value |-> JsUndefined,
             entries |-> <<>>]

\* module.exports as declare_runtime creates it: the empty string.
InitialExports == ""

\* require has not been called yet.
NoRequire == [file |-> "", ok |-> TRUE, value |-> ""]

\* cache() has not been called yet.
NoSnapshot == [taken |-> FALSE, at |-> 0, cache |-> EmptyCache]

\* The environment snapshot the sandbox's env map is filled from.
EnvSnapshot == [API_KEY |-> "secret"]

Init ==
    /\ cache = EmptyCache
    /\ calls = <<>>
    /\ comparers = <<>>
    /\ config = DefaultScriptPath
    /\ pc = "idle"
    /\ listing = <<>>
    /\ idx = 0
    /\ feed = NoFeed
    /\ invoked = <<>>
    /\ loaded = <<>>
    /\ warnings = <<>>
    /\ ret = NoReturn
    /\ passes = 0
    /\ passBase = 0
    /\ host = NoHost
    /\ cacheLock = "free"
    /\ env = EnvSnapshot
    /\ active = {}
    /\ owners = <<>>
    /\ snapshot = NoSnapshot
    /\ exports = InitialExports
    /\ evals = <<>>
    /\ required = NoRequire
    /\ receiver = JsUndefined
    /\ reply = NoAnswer

---------------------------------------------------------------------------
(* The file system initialize reads: script directories and script files. *)

\* A script that declares no PACKET_NAME text constant.
NoName == "<undefined>"

\* What a script file is, as far as Comparer::from can tell:
\*   readable     Source::from_filepath succeeds
\*   eval         outcome of evaluating the top level
\*   compare      a callable global compare exists after evaluation
\*   packet_name  the global PACKET_NAME when it is a string, else NoName
\*   init         the global init: absent, returning, or throwing
ScriptFile(readable, eval, compare, packet_name, init) ==
    [readable |-> readable, eval |-> eval, compare |-> compare,
     packet_name |-> packet_name, init |-> init]

Script(path) ==
    CASE path = "scripts/a.js"      -> ScriptFile(TRUE, "ok", TRUE, "Foo", "none")
      [] path = "scripts/b.js"      -> ScriptFile(TRUE, "ok", TRUE, "Bar", "ok")
      [] path = "scripts/syntax.js" -> ScriptFile(TRUE, "syntax_error", FALSE, NoName, "none")
      [] path = "scripts/crash.js"  -> ScriptFile(TRUE, "throws", TRUE, "Foo", "none")
      [] path = "scripts/lib.js"    -> ScriptFile(TRUE, "ok", FALSE, NoName, "ok")
      [] path = "alt/noname.js"     -> ScriptFile(TRUE, "ok", TRUE, NoName, "ok")
      [] path = "alt/badinit.js"    -> ScriptFile(TRUE, "ok", TRUE, "Bar", "throws")
      [] path = "alt/c.js"          -> ScriptFile(TRUE, "ok", TRUE, "Foo", "ok")
      [] path = "alt/gone.js"       -> ScriptFile(FALSE, "ok", TRUE, "Foo", "none")

\* One item of path.read_dir(): an io error, or an entry with its path and the
\* extension of that path ("" when it has none).
EntryError == [ok |-> FALSE, path |-> "", ext |-> ""]

Entry(path, ext) == [ok |-> TRUE, path |-> path, ext |-> ext]

\* The directories a Config.script_path can name.
ScriptPaths == {"scripts", "alt", "file", "missing"}

\* Path::exists
PathExists(path) == path # "missing"

\* path.read_dir(): <<>> paired with ok = FALSE when the directory cannot be
\* read, else the entries in the order the platform enumerates them.
ReadDir(path) ==
    CASE path = "scripts" ->
            [ok |-> TRUE,
             entries |-> << Entry("scripts/a.js", "js"),
                            Entry("scripts/syntax.js", "js"),
                            Entry("scripts/notes.txt", "txt"),
                            Entry("scripts/lib.js", "js"),
                            Entry("scripts/crash.js", "js"),
                            Entry("scripts/b.js", "js") >>]
      [] path = "alt" ->
            [ok |-> TRUE,
             entries |-> << Entry("alt/noname.js", "js"),
                            EntryError,
                            Entry("alt/badinit.js", "js"),
                            Entry("alt/README", ""),
                            Entry("alt/c.js", "js"),
                            Entry("alt/gone.js", "js") >>]
      [] OTHER -> [ok |-> FALSE, entries |-> <<>>]

\* Outcomes of reading Config.environment_file.
EnvFiles == {"absent", "ok", "malformed", "unreadable"}

---------------------------------------------------------------------------
(* Script values and the identify host function. *)

JsString(s) == [type |-> "string", value |-> s]

JsNumber(n) == [type |-> "number", value |-> n]

JsObject(o) == [type |-> "object", value |-> o]

\* `number as u16`: a saturating cast.
AsU16(n) == IF n < 0 THEN 0 ELSE IF n > U16Max THEN U16Max ELSE n

\* An object whose field_id property is an accessor: reading it runs script
\* code, which may call a host function (inner) before returning the value.
JsAccessor(o, inner) == [type |-> "accessor", value |-> o, inner |-> inner]

JsBoolean(b) == [type |-> "boolean", value |-> b]

\* MessageField::try_from_js succeeds: an object with the three properties.
IsMessageField(v) ==
    /\ v.type \in {"object", "accessor"}
    /\ DOMAIN v.value = {"field_name", "field_type", "field_id"}

\* js_identify: the Cache after the call and whether the call returned
\* normally (ok) or raised a sandbox error.
JsIdentify(c, args) ==
    IF Len(args) < 3 THEN [ok |-> FALSE, cache |-> c]
    ELSE IF args[1].type # "string" THEN [ok |-> FALSE, cache |-> c]
    ELSE IF args[2].type # "number" THEN [ok |-> FALSE, cache |-> c]
    ELSE IF ~IsMessageField(args[3]) THEN [ok |-> FALSE, cache |-> c]
    ELSE [ok |-> TRUE,
          cache |-> Update(c, args[1].value, AsU16(args[2].value), args[3].value)]

\* The history after js_identify: one more Cache::update call when it got
\* that far.
RecordIdentify(history, args) ==
    IF JsIdentify(EmptyCache, args).ok
    THEN Append(history, Call(args[1].value, AsU16(args[2].value), args[3].value))
    ELSE history

\* js_is_known: the boolean it returns, or a sandbox error (ok = FALSE).
JsIsKnown(c, args) ==
    IF Len(args) < 1 THEN [ok |-> FALSE, value |-> FALSE]
    ELSE IF args[1].type = "string"
    THEN [ok |-> TRUE, value |-> NameKnown(c, args[1].value)]
    ELSE IF args[1].type = "number"
    THEN [ok |-> TRUE, value |-> IdKnown(c, AsU16(args[1].value))]
    ELSE [ok |-> FALSE, value |-> FALSE]

\* The identify calls a script may make: well-formed ones, and one that
\* lacks its field argument.
IdentifyArgs ==
    {<<JsString(n), JsNumber(i), JsObject(f)>> :
        n \in Names, i \in PacketIds, f \in ScriptFields}
    \cup {<<JsString("Foo"), JsNumber(1)>>}

\* What one execution of script code does: the host calls it makes (at most
\* one identify) and whether it then throws.
ScriptRuns ==
    {[identify |-> a, throws |-> t] :
        a \in {<<>>} \cup {<<x>> : x \in IdentifyArgs}, t \in BOOLEAN}

\* The identify calls of a run applied to the Cache and to the history.
RunCache(c, run) ==
    IF run.identify = <<>> THEN c ELSE JsIdentify(c, run.identify[1]).cache

RunCalls(history, run) ==
    IF run.identify = <<>> THEN history
    ELSE RecordIdentify(history, run.identify[1])

\* Runs that keep the history within the bound.
RunAllowed(run) == Len(RunCalls(calls, run)) <= MaxIdentify

---------------------------------------------------------------------------
(* Comparer *)

Comparer(script, name) == [script |-> script, name |-> name]

\* Comparer::from: Err, Ok(None) or Ok(Some(comparer)).
ComparerFrom(path) ==
    LET s == Script(path) IN
    IF ~s.readable THEN [tag |-> "Err", name |-> NoName]
    ELSE IF s.eval # "ok" THEN [tag |-> "Err", name |-> NoName]
    ELSE IF ~s.compare THEN [tag |-> "None", name |-> NoName]
    ELSE IF s.packet_name = NoName THEN [tag |-> "Err", name |-> NoName]
    ELSE IF s.init = "throws" THEN [tag |-> "Err", name |-> NoName]
    ELSE [tag |-> "Some", name |-> s.packet_name]

\* The host calls made by the script code Comparer::from executes for a file
\* (its top level and, when reached, init): none when the file cannot be read
\* or parsed. Whether that code throws is part of the file (Script).
LoadRuns(path) ==
    LET s == Script(path) IN
    IF ~s.readable \/ s.eval = "syntax_error"
    THEN {[identify |-> <<>>, throws |-> FALSE]}
    ELSE {r \in ScriptRuns : ~r.throws}

\* Faulty variant of the match on Comparer::from's result: every file that produced
\* no Comparer is reported.
LoadArmWarnsOnNone(result) ==
    [push |-> result.tag = "Some", warn |-> result.tag # "Some"]

\* The match on Comparer::from's result in Matcher::initialize.
LoadArm(result) ==
    [push |-> result.tag = "Some", warn |-> result.tag = "Err"]

\* Faulty variant of the identity filter: a Comparer is skipped for the id it is bound to.
IdentityFilterSkipsBound(c, name, id) ==
    name \in DOMAIN c.name_map /\ c.name_map[name] = id

\* Faulty variant of the identity filter: a Comparer whose name is unbound is skipped.
IdentityFilterSkipsUnbound(c, name, id) ==
    name \notin DOMAIN c.name_map \/ c.name_map[name] # id

\* The identity filter of Matcher::compare: the Comparer is skipped.
IdentityFilterSkips(c, name, id) ==
    name \in DOMAIN c.name_map /\ c.name_map[name] # id

\* Faulty variant of the roster loop: the filter reads the Cache as it was
\* when the feed began.
FilterCacheAtBegin(live, atBegin) == atBegin

\* The Cache the identity filter reads: the roster loop locks the shared
\* Cache anew in every iteration.
FilterCache(live, atBegin) == live

\* Byte blobs handed to the decoder.
Blobs == {"wellformed", "malformed"}

\* protoshark::decode succeeds.
Decodes(blob) == blob = "wellformed"

\* Faulty variant of the decode step: the header's decode error is ignored.
DecodeErrorDataOnly(header, data) ==
    IF ~Decodes(data) THEN "failed to decode packet" ELSE "none"

\* The decode step of Matcher::compare: the error it returns, or "none".
DecodeError(header, data) ==
    IF ~Decodes(data) THEN "failed to decode packet"
    ELSE IF ~Decodes(header) THEN "failed to decode header"
    ELSE "none"

\* Faulty variant of the dispatch: a Comparer's error is returned to the caller.
PropagatesAll(result) == result = "Err"

\* Whether Matcher::compare returns a Comparer's error (it logs it instead).
Propagates(result) == FALSE

\* Comparer::compare's result for a run of the script's compare function.
CompareResult(run) == IF run.throws THEN "Err" ELSE "Ok"

Return(op, status) == [op |-> op, status |-> status]

\* The Cache as it was when the feed in progress began.
CacheAtBegin == Replay(EmptyCache, SubSeq(calls, 1, feed.base))

\* Faulty variant of Comparer::from's sequence: init is called as soon as the top
\* level has been evaluated.
LoadTraceInitFirst(path) ==
    LET s == Script(path) IN
    IF ~s.readable THEN <<"read">>
    ELSE IF s.eval # "ok" THEN <<"read", "evaluate">>
    ELSE LET early == IF s.init = "none" THEN <<"read", "evaluate">>
                      ELSE <<"read", "evaluate", "init">>
         IN  IF s.init = "throws" THEN early
             ELSE IF ~s.compare THEN early \o <<"compare">>
             ELSE early \o <<"compare", "packet_name">>

\* The steps Comparer::from performs for a file, in order, up to the one that
\* ends it: read the source, evaluate the top level, look up compare, look
\* up PACKET_NAME, call init when there is one.
LoadTrace(path) ==
    LET s == Script(path) IN
    IF ~s.readable THEN <<"read">>
    ELSE IF s.eval # "ok" THEN <<"read", "evaluate">>
    ELSE IF ~s.compare THEN <<"read", "evaluate", "compare">>
    ELSE IF s.packet_name = NoName \/ s.init = "none"
    THEN <<"read", "evaluate", "compare", "packet_name">>
    ELSE <<"read", "evaluate", "compare", "packet_name", "init">>

---------------------------------------------------------------------------
(* Threads and the MATCHER lock. *)

Threads == {"main", "worker"}

\* What is_main_thread() can report on a thread: the platform may be unable
\* to tell.
IsMainThread(t) == IF t = "main" THEN {"Some(true)", "None"}
                   ELSE {"Some(false)", "None"}

\* is_main_thread().unwrap_or_else(|| true)
OnMainThread(report) == IF report = "None" THEN TRUE ELSE report = "Some(true)"

\* Faulty variant of MATCHER.lock(): it never waits.
MatcherLockNeverWaits(holders) == TRUE

\* MATCHER.lock() returns only once no thread holds the lock.
MatcherLockFree(holders) == holders = {}

\* The thread running the entry point that holds the MATCHER lock.
Caller == CHOOSE t \in active : TRUE

\* Faulty variant of Cache::clone: the messages are left behind.
CloneWithoutMessages(c) == [c EXCEPT !.messages = EmptyCache.messages]

\* Cache::clone (derived): every field is copied.
CloneCache(c) ==
    [known_names |-> c.known_names, known_ids |-> c.known_ids,
     id_map |-> c.id_map, name_map |-> c.name_map, messages |-> c.messages]

---------------------------------------------------------------------------
(* Spec: the public entry points, initialize and input called from the main
   thread. *)

\* initialize(config) returning before the Matcher is touched: the script
\* folder does not exist, or the environment file cannot be read.
InitializeRejected(t, path, envFile) ==
    /\ t \notin active
    /\ MatcherLockFree(active)
    /\ ~PathExists(path) \/ envFile = "unreadable"
    /\ ret' = Return("initialize",
                     IF ~PathExists(path) THEN "script folder does not exist"
                     ELSE "io error")
    /\ UNCHANGED <<cache, calls, comparers, config, pc, listing, idx, feed,
                   invoked, loaded, warnings, passes, passBase>>
    /\ UNCHANGED <<hostVars, apiVars>>

\* initialize(config) up to the start of the directory loop.
InitializeBegin(t, path, envFile) ==
    /\ t \notin active
    /\ MatcherLockFree(active)
    /\ passes < MaxPasses
    /\ PathExists(path) /\ envFile # "unreadable"
    /\ config' = path
    /\ passes' = passes + 1
    /\ passBase' = Len(calls)
    /\ IF ReadDir(path).ok
       THEN /\ pc' = "initialize"
            /\ listing' = ReadDir(path).entries
            /\ idx' = 1
            /\ active' = active \cup {t}
            /\ warnings' = IF envFile = "malformed"
                           THEN <<[kind |-> "environment", path |-> ""]>>
                           ELSE <<>>
            /\ ret' = NoReturn
       ELSE /\ ret' = Return("initialize", "io error")
            /\ UNCHANGED <<pc, listing, idx, warnings, active>>
    /\ UNCHANGED <<cache, calls, comparers, feed, invoked, loaded>>
    /\ UNCHANGED <<hostVars, owners, snapshot>>

\* One iteration of the directory loop of Matcher::initialize.
LoadEntry ==
    /\ pc = "initialize"
    /\ idx <= Len(listing)
    /\ idx' = idx + 1
    /\ LET entry == listing[idx] IN
       IF ~entry.ok
       THEN /\ warnings' = Append(warnings, [kind |-> "read", path |-> ""])
            /\ UNCHANGED <<cache, calls, comparers, loaded, owners>>
       ELSE IF entry.ext # "js"
       THEN UNCHANGED <<cache, calls, comparers, loaded, warnings, owners>>
       ELSE \E run \in LoadRuns(entry.path) :
            LET result == ComparerFrom(entry.path)
                arm == LoadArm(result)
            IN  /\ RunAllowed(run)
                /\ cache' = RunCache(cache, run)
                /\ calls' = RunCalls(calls, run)
                /\ comparers' = IF arm.push
                                THEN Append(comparers, Comparer(entry.path, result.name))
                                ELSE comparers
                /\ owners' = IF arm.push THEN Append(owners, Caller) ELSE owners
                /\ warnings' = IF arm.warn
                               THEN Append(warnings, [kind |-> "script", path |-> entry.path])
                               ELSE warnings
                /\ loaded' = Append(loaded, [path |-> entry.path, result |-> result.tag,
                                             steps |-> LoadTrace(entry.path)])
    /\ UNCHANGED <<config, pc, listing, feed, invoked, ret, passes, passBase>>
    /\ UNCHANGED <<hostVars, active, snapshot>>

\* initialize returns Ok(()) after the last directory entry.
InitializeReturn ==
    /\ pc = "initialize"
    /\ idx > Len(listing)
    /\ pc' = "idle"
    /\ ret' = Return("initialize", "ok")
    /\ listing' = <<>>
    /\ idx' = 0
    /\ loaded' = <<>>
    /\ warnings' = <<>>
    /\ active' = {}
    /\ UNCHANGED <<cache, calls, comparers, config, feed, invoked, passes, passBase>>
    /\ UNCHANGED <<hostVars, owners, snapshot>>

\* input called on a thread that is_main_thread reports not to be the main
\* one: it returns before MATCHER is locked. The step touches nothing of the
\* Matcher, so it commutes with the steps of a call in progress; it is taken
\* between calls, where its return value is recorded.
InputNotMain(t) ==
    /\ active = {}
    /\ \E report \in IsMainThread(t) : ~OnMainThread(report)
    /\ ret' = Return("input", "input can only be called on the main thread")
    /\ UNCHANGED <<cache, calls, comparers, config, pc, listing, idx, feed,
                   invoked, loaded, warnings, passes, passBase>>
    /\ UNCHANGED <<hostVars, apiVars>>

\* input(id, header, data) past the thread check, up to Matcher::compare.
InputBegin(t, id, header, data) ==
    /\ t \notin active
    /\ \E report \in IsMainThread(t) : OnMainThread(report)
    /\ MatcherLockFree(active)
    /\ active' = active \cup {t}
    /\ pc' = "decode"
    /\ feed' = [id |-> id, header |-> header, data |-> data, base |-> Len(calls)]
    /\ ret' = NoReturn
    /\ invoked' = <<>>
    /\ warnings' = <<>>
    /\ UNCHANGED <<cache, calls, comparers, config, listing, idx, loaded,
                   passes, passBase>>
    /\ UNCHANGED <<hostVars, owners, snapshot>>

\* The decode step of Matcher::compare.
MatcherDecode ==
    /\ pc = "decode"
    /\ LET error == DecodeError(feed.header, feed.data) IN
       IF error # "none"
       THEN /\ pc' = "idle"
            /\ ret' = Return("input", error)
            /\ feed' = NoFeed
            /\ idx' = 0
            /\ active' = {}
       ELSE /\ pc' = "compare"
            /\ idx' = 1
            /\ UNCHANGED <<ret, feed, active>>
    /\ UNCHANGED <<cache, calls, comparers, config, listing, invoked, loaded,
                   warnings, passes, passBase>>
    /\ UNCHANGED <<hostVars, owners, snapshot>>

\* One iteration of the roster loop of Matcher::compare.
CompareStep ==
    /\ pc = "compare"
    /\ idx <= Len(comparers)
    /\ IF IdentityFilterSkips(FilterCache(cache, CacheAtBegin),
                              comparers[idx].name, feed.id)
       THEN /\ idx' = idx + 1
            /\ UNCHANGED <<cache, calls, invoked, warnings, pc, ret, feed, active>>
       ELSE \E run \in ScriptRuns :
            LET result == CompareResult(run) IN
            /\ RunAllowed(run)
            /\ cache' = RunCache(cache, run)
            /\ calls' = RunCalls(calls, run)
            /\ IF Propagates(result)
               THEN /\ pc' = "idle"
                    /\ ret' = Return("input", "failed to run function")
                    /\ feed' = NoFeed
                    /\ idx' = 0
                    /\ invoked' = Append(invoked, [comparer |-> idx, result |-> result])
                    /\ active' = {}
                    /\ UNCHANGED warnings
               ELSE /\ idx' = idx + 1
                    /\ invoked' = Append(invoked, [comparer |-> idx, result |-> result])
                    /\ warnings' = IF result = "Err"
                                   THEN Append(warnings, [kind |-> "compare",
                                                          path |-> comparers[idx].script])
                                   ELSE warnings
                    /\ UNCHANGED <<pc, ret, feed, active>>
    /\ UNCHANGED <<comparers, config, listing, loaded, passes, passBase>>
    /\ UNCHANGED <<hostVars, owners, snapshot>>

\* Matcher::compare and input return Ok(()) after the last Comparer.
CompareReturn ==
    /\ pc = "compare"
    /\ idx > Len(comparers)
    /\ pc' = "idle"
    /\ ret' = Return("input", "ok")
    /\ feed' = NoFeed
    /\ idx' = 0
    /\ invoked' = <<>>
    /\ warnings' = <<>>
    /\ active' = {}
    /\ UNCHANGED <<cache, calls, comparers, config, listing, loaded, passes, passBase>>
    /\ UNCHANGED <<hostVars, owners, snapshot>>

Next ==
    \/ \E path \in ScriptPaths, envFile \in EnvFiles :
          InitializeRejected("main", path, envFile)
    \/ \E path \in ScriptPaths, envFile \in EnvFiles :
          InitializeBegin("main", path, envFile)
    \/ LoadEntry
    \/ InitializeReturn
    \/ InputNotMain("worker")
    \/ \E id \in PacketIds, header \in Blobs, data \in Blobs :
          InputBegin("main", id, header, data)
    \/ MatcherDecode
    \/ CompareStep
    \/ CompareReturn

Spec == Init /\ [][Next]_vars

---------------------------------------------------------------------------
(* CacheSpec: Cache::update called directly. *)

\* cache.update(name, id, field) on the Matcher's Cache.
UpdateCall(name, id, field) ==
    /\ Len(calls) < MaxCalls
    /\ cache' = Update(cache, name, id, field)
    /\ calls' = Append(calls, Call(name, id, field))
    /\ UNCHANGED matcherVars
    /\ UNCHANGED <<hostVars, apiVars>>

CacheNext == \E name \in Names, id \in PacketIds, field \in Fields :
                UpdateCall(name, id, field)

CacheSpec == Init /\ [][CacheNext]_vars

---------------------------------------------------------------------------
(* HostSpec: one script calling the host functions identify and isKnown and
   using the env global of its sandbox. *)

\* Further arguments a script may pass to identify, besides IdentifyArgs:
\* out-of-range ids, ill-typed arguments, and field objects whose field_id is
\* an accessor.
HostIdentifyArgs ==
    << <<JsString("Bar"), JsNumber(-1), JsObject(MessageField(1))>>,
       <<JsString("Bar"), JsNumber(U16Max + 1), JsObject(MessageField(1))>>,
       <<JsNumber(1), JsNumber(1), JsObject(MessageField(1))>>,
       <<JsString("Foo"), JsString("1"), JsObject(MessageField(1))>>,
       <<JsString("Foo"), JsNumber(1), JsNumber(7)>>,
       <<JsString("Foo"), JsNumber(1), JsObject([field_name |-> "f"])>>,
       <<JsString("Foo"), JsNumber(2), JsAccessor(MessageField(2), "none")>>,
       <<JsString("Foo"), JsNumber(2), JsAccessor(MessageField(2), "identify")>>,
       <<JsString("Foo"), JsNumber(2), JsAccessor(MessageField(2), "isKnown")>> >>

\* The arguments a script may pass to isKnown.
IsKnownArgs ==
    << <<JsString("Foo")>>, <<JsString("Bar")>>, <<JsNumber(1)>>, <<JsNumber(2)>>,
       <<JsNumber(-1)>>, <<JsNumber(U16Max + 1)>>, <<>>, <<JsBoolean(TRUE)>> >>

\* cache.lock() on a thread that already holds the lock: std::sync::Mutex
\* leaves the outcome open between never returning and panicking.
RelockOutcomes == {"deadlock", "panic"}

EnvKeys == {"API_KEY"}

EnvValues == {"secret", "forged"}

\* The first statement of js_identify and js_is_known: the Cache is locked.
HostEnter(fn, args) ==
    /\ host.pc = "idle"
    /\ cacheLock = "free"
    /\ fn = "identify" => Len(calls) < MaxCalls
    /\ host' = [pc |-> "locked", fn |-> fn, args |-> args, result |-> "none"]
    /\ cacheLock' = fn
    /\ UNCHANGED <<cache, calls, env, requireVars, messageVars, matcherVars, apiVars>>

\* The host call in progress returns and its lock guard is dropped.
HostIdentifyReturn ==
    LET r == JsIdentify(cache, host.args) IN
    /\ cache' = r.cache
    /\ calls' = RecordIdentify(calls, host.args)
    /\ host' = [pc |-> "idle", fn |-> host.fn, args |-> <<>>,
                result |-> IF r.ok THEN "undefined" ELSE "error"]
    /\ cacheLock' = "free"
    /\ UNCHANGED <<env, requireVars, messageVars, matcherVars, apiVars>>

\* The field argument of the call is an object whose conversion runs script
\* code.
RunsGetter(args) ==
    /\ Len(args) >= 3
    /\ args[1].type = "string"
    /\ args[2].type = "number"
    /\ args[3].type = "accessor"

\* js_identify after the lock is taken, up to MessageField::try_from_js.
HostIdentify ==
    /\ host.pc = "locked"
    /\ host.fn = "identify"
    /\ IF RunsGetter(host.args)
       THEN /\ host' = [host EXCEPT !.pc = "getter"]
            /\ UNCHANGED <<cache, calls, cacheLock, env, requireVars, messageVars, matcherVars, apiVars>>
       ELSE HostIdentifyReturn

\* The accessor read by MessageField::try_from_js runs: it returns the
\* value, or first calls a host function, which locks the Cache again.
HostGetter ==
    /\ host.pc = "getter"
    /\ IF host.args[3].inner = "none"
       THEN HostIdentifyReturn
       ELSE /\ \E outcome \in RelockOutcomes : host' = [host EXCEPT !.pc = outcome]
            /\ UNCHANGED <<cache, calls, cacheLock, env, requireVars, messageVars, matcherVars, apiVars>>

\* js_is_known after the lock is taken.
HostIsKnown ==
    /\ host.pc = "locked"
    /\ host.fn = "isKnown"
    /\ LET r == JsIsKnown(cache, host.args) IN
       host' = [pc |-> "idle", fn |-> host.fn, args |-> <<>>,
                result |-> IF ~r.ok THEN "error"
                           ELSE IF r.value THEN "true" ELSE "false"]
    /\ cacheLock' = "free"
    /\ UNCHANGED <<cache, calls, env, requireVars, messageVars, matcherVars, apiVars>>

\* The script calls env.set(key, value): env is an ordinary Map.
ScriptEnvSet(key, value) ==
    /\ host.pc = "idle"
    /\ env' = [env EXCEPT ![key] = value]
    /\ UNCHANGED <<cache, calls, host, cacheLock, requireVars, messageVars, matcherVars, apiVars>>

HostNext ==
    \/ \E args \in IdentifyArgs : HostEnter("identify", args)
    \/ \E k \in DOMAIN HostIdentifyArgs : HostEnter("identify", HostIdentifyArgs[k])
    \/ \E k \in DOMAIN IsKnownArgs : HostEnter("isKnown", IsKnownArgs[k])
    \/ HostIdentify
    \/ HostGetter
    \/ HostIsKnown
    \/ \E key \in EnvKeys, value \in EnvValues : ScriptEnvSet(key, value)

HostSpec == Init /\ [][HostNext]_vars

---------------------------------------------------------------------------
(* RequireSpec: one script calling require. *)

\* A file that does not assign module.exports.
NoAssign == "<none>"

\* What a file of the script's directory does when evaluated: the value it
\* assigns to module.exports (or NoAssign) and whether it then throws.
RequireFile(file) ==
    CASE file = "a.js"     -> [readable |-> TRUE, assigns |-> "A", throws |-> FALSE]
      [] file = "b.js"     -> [readable |-> TRUE, assigns |-> "B", throws |-> FALSE]
      [] file = "plain.js" -> [readable |-> TRUE, assigns |-> NoAssign, throws |-> FALSE]
      [] file = "late.js"  -> [readable |-> TRUE, assigns |-> "L", throws |-> TRUE]
      [] OTHER             -> [readable |-> FALSE, assigns |-> NoAssign, throws |-> FALSE]

\* The argument lists a script may pass to require.
RequireArgs ==
    << <<JsString("a.js")>>, <<JsString("b.js")>>, <<JsString("plain.js")>>,
       <<JsString("late.js")>>, <<JsString("missing.js")>>, <<>> >>

\* args.get_or_undefined(0).to_string(context)
JsToString(args) == IF Len(args) < 1 THEN "undefined" ELSE args[1].value

\* js_require: the file named, whether it was evaluated, module.exports after
\* the call, and the value returned or the error raised (ok = FALSE).
JsRequire(slot, args) ==
    LET file == JsToString(args)
        f == RequireFile(file)
        after == IF f.assigns = NoAssign THEN slot ELSE f.assigns
    IN  IF ~f.readable
        THEN [file |-> file, evaluated |-> FALSE, exports |-> slot,
              ok |-> FALSE, value |-> "failed to load file"]
        ELSE IF f.throws
        THEN [file |-> file, evaluated |-> TRUE, exports |-> after,
              ok |-> FALSE, value |-> "uncaught"]
        ELSE [file |-> file, evaluated |-> TRUE, exports |-> after,
              ok |-> TRUE, value |-> after]

\* The script calls require(...).
Require(args) ==
    LET r == JsRequire(exports, args) IN
    /\ Len(evals) < MaxRequires
    /\ exports' = r.exports
    /\ evals' = IF r.evaluated THEN Append(evals, r.file) ELSE evals
    /\ required' = [file |-> r.file, ok |-> r.ok, value |-> r.value]
    /\ UNCHANGED <<cache, calls, host, cacheLock, env, messageVars, matcherVars,
                   apiVars>>

RequireNext == \E k \in DOMAIN RequireArgs : Require(RequireArgs[k])

RequireSpec == Init /\ [][RequireNext]_vars

---------------------------------------------------------------------------
(* MessageSpec: one script reading the messages Comparer::compare hands to
   its compare function. *)

I32Max == 2147483647

I32Min == -I32Max - 1

\* `number as i32`: a saturating cast.
AsI32(n) == IF n < I32Min THEN I32Min ELSE IF n > I32Max THEN I32Max ELSE n

\* The six kinds of Value, in the order js_method! lists them.
Kinds == <<"VarInt", "Float", "Double", "String", "Bytes", "Message">>

\* The field ids the decoder produces in the sample messages.
MaxFieldId == 3

\* One value of a decoded (protoshark) message.
ProtoValue(kind, scalar, message) ==
    [proto |-> kind, scalar |-> scalar, message |-> message]

\* Decoded messages: scalars of every kind, a nested message, a message
\* nested twice, gaps in the field ids, and the empty message.
ProtoMessages ==
    << (1 :> ProtoValue("VarInt", "7", <<>>))
          @@ (2 :> ProtoValue("String", "hi", <<>>))
          @@ (3 :> ProtoValue("Message", "",
                      (1 :> ProtoValue("VarInt", "1", <<>>))
                         @@ (2 :> ProtoValue("Bytes", "ab", <<>>)))),
       (1 :> ProtoValue("Float", "1.5", <<>>))
          @@ (3 :> ProtoValue("Double", "2.5", <<>>)),
       (2 :> ProtoValue("Message", "",
                (1 :> ProtoValue("Message", "", <<>>)))),
       (1 :> ProtoValue("Bytes", "ab", <<>>))
          @@ (2 :> ProtoValue("Bytes", "", <<>>))
          @@ (3 :> ProtoValue("VarInt", "0", <<>>)),
       <<>> >>

\* One Value of a SerializedMessage.
Value(kind, scalar, message) ==
    [kind |-> kind, scalar |-> scalar, message |-> message]

\* SerializedMessage::from: every entry is converted to the Value of the same
\* kind, a nested message recursively.
RECURSIVE From(_)
From(message) ==
    [key \in DOMAIN message |->
        LET v == message[key] IN
        CASE v.proto = "VarInt"  -> Value("VarInt", v.scalar, <<>>)
          [] v.proto = "Float"   -> Value("Float", v.scalar, <<>>)
          [] v.proto = "Double"  -> Value("Double", v.scalar, <<>>)
          [] v.proto = "String"  -> Value("String", v.scalar, <<>>)
          [] v.proto = "Bytes"   -> Value("Bytes", v.scalar, <<>>)
          [] v.proto = "Message" -> Value("Message", "", From(v.message))]

\* SerializedMessage::from_to_js: the message becomes an instance of the
\* registered class SerializedMessage.
FromToJs(message) == JsValue("object", "SerializedMessage", "", From(message))

\* Value::try_into_js: a number, a string or an array for the scalar kinds;
\* for a nested message the derived conversion of the struct, an ordinary
\* object holding the field inner.
TryIntoJs(v) ==
    CASE v.kind \in {"VarInt", "Float", "Double"} -> JsValue("number", "", v.scalar, <<>>)
      [] v.kind = "String"  -> JsValue("string", "", v.scalar, <<>>)
      [] v.kind = "Bytes"   -> JsValue("object", "Array", v.scalar, <<>>)
      [] v.kind = "Message" -> JsValue("object", "Object", "", v.message)

\* The checks every getter starts with: `this` is an object that downcasts
\* to SerializedMessage.
IsSerializedMessage(this) == this.type = "object" /\ this.class = "SerializedMessage"

GetterError(fn) == [fn |-> fn, ok |-> FALSE, value |-> JsUndefined, entries |-> <<>>]

GetterValue(fn, value) == [fn |-> fn, ok |-> TRUE, value |-> value, entries |-> <<>>]

\* SerializedMessage::js_get
JsGet(this, args) ==
    IF ~IsSerializedMessage(this) THEN GetterError("get")
    ELSE IF Len(args) < 1 THEN GetterError("get")
    ELSE IF args[1].type # "number" THEN GetterError("get")
    ELSE LET field_id == AsI32(args[1].value) IN
         IF field_id \in DOMAIN this.inner
         THEN GetterValue("get", TryIntoJs(this.inner[field_id]))
         ELSE GetterValue("get", JsUndefined)

\* js_get_<kind>, generated by js_method! for each kind.
JsGetKind(kind, this, args) ==
    IF ~IsSerializedMessage(this) THEN GetterError(kind)
    ELSE IF Len(args) < 1 THEN GetterError(kind)
    ELSE IF args[1].type # "number" THEN GetterError(kind)
    ELSE LET field_id == AsI32(args[1].value) IN
         IF field_id \in DOMAIN this.inner
         THEN IF this.inner[field_id].kind = kind
              THEN GetterValue(kind, TryIntoJs(this.inner[field_id]))
              ELSE GetterValue(kind, JsUndefined)
         ELSE GetterValue(kind, JsUndefined)

\* The entries of a message that pass a test, as [id, value] pairs. The
\* HashMap's iteration order is unspecified; ascending ids stand for it.
RECURSIVE EntriesFrom(_, _, _)
EntriesFrom(inner, kinds, from) ==
    IF from > MaxFieldId THEN <<>>
    ELSE IF from \in DOMAIN inner /\ inner[from].kind \in kinds
    THEN <<[id |-> from, value |-> TryIntoJs(inner[from])]>>
            \o EntriesFrom(inner, kinds, from + 1)
    ELSE EntriesFrom(inner, kinds, from + 1)

\* js_get_all_<kind>, generated by js_method! for each kind.
JsGetAll(kind, this) ==
    IF ~IsSerializedMessage(this) THEN GetterError("all" \o kind)
    ELSE [fn |-> "all" \o kind, ok |-> TRUE, value |-> JsUndefined,
          entries |-> EntriesFrom(this.inner, {kind}, 1)]

\* SerializedMessage::js_keys
JsKeys(this) ==
    IF ~IsSerializedMessage(this) THEN GetterError("keys")
    ELSE [fn |-> "keys", ok |-> TRUE, value |-> JsUndefined,
          entries |-> EntriesFrom(this.inner, {Kinds[i] : i \in DOMAIN Kinds}, 1)]

\* The numbers a script passes as field id.
FieldArgs == 0..(MaxFieldId + 1) \cup {-1, I32Max}

\* Comparer::compare converts a decoded message and passes it to the script.
Receive(i) ==
    /\ receiver' = FromToJs(ProtoMessages[i])
    /\ reply' = NoAnswer
    /\ UNCHANGED <<cache, calls, host, cacheLock, env, requireVars, matcherVars,
                   apiVars>>

\* The script calls get(k) on the message value it holds.
CallGet(k) ==
    /\ receiver # JsUndefined
    /\ reply' = JsGet(receiver, <<JsNumber(k)>>) @@ [arg |-> k]
    /\ UNCHANGED <<cache, calls, host, cacheLock, env, requireVars, matcherVars,
                   apiVars, receiver>>

\* The script calls one of varint(k), float(k), double(k), string(k),
\* bytes(k), message(k).
CallGetKind(kind, k) ==
    /\ receiver # JsUndefined
    /\ reply' = JsGetKind(kind, receiver, <<JsNumber(k)>>) @@ [arg |-> k]
    /\ UNCHANGED <<cache, calls, host, cacheLock, env, requireVars, matcherVars,
                   apiVars, receiver>>

\* The script calls one of allVarInt(), ..., allMessage().
CallGetAll(kind) ==
    /\ receiver # JsUndefined
    /\ reply' = JsGetAll(kind, receiver) @@ [arg |-> 0]
    /\ UNCHANGED <<cache, calls, host, cacheLock, env, requireVars, matcherVars,
                   apiVars, receiver>>

\* The script calls keys().
CallKeys ==
    /\ receiver # JsUndefined
    /\ reply' = JsKeys(receiver) @@ [arg |-> 0]
    /\ UNCHANGED <<cache, calls, host, cacheLock, env, requireVars, matcherVars,
                   apiVars, receiver>>

\* The script goes on with the nested message a getter returned.
Descend ==
    /\ reply.ok
    /\ reply.value.type = "object"
    /\ reply.value.class # "Array"
    /\ receiver' = reply.value
    /\ reply' = NoAnswer
    /\ UNCHANGED <<cache, calls, host, cacheLock, env, requireVars, matcherVars,
                   apiVars>>

MessageNext ==
    \/ \E i \in DOMAIN ProtoMessages : Receive(i)
    \/ \E k \in FieldArgs : CallGet(k)
    \/ \E i \in DOMAIN Kinds, k \in FieldArgs : CallGetKind(Kinds[i], k)
    \/ \E i \in DOMAIN Kinds : CallGetAll(Kinds[i])
    \/ CallKeys
    \/ Descend

MessageSpec == Init /\ [][MessageNext]_vars

---------------------------------------------------------------------------
(* ApiSpec: initialize, input and cache called from any thread, with no
   environment file and well-formed headers; the application fills the
   roster once. *)

ApiPaths == {DefaultScriptPath, "missing"}

\* cache(): MATCHER and the Cache are locked and the Cache is cloned.
CacheExport(t) ==
    /\ t \notin active
    /\ MatcherLockFree(active)
    /\ snapshot' = [taken |-> TRUE, at |-> Len(calls), cache |-> CloneCache(cache)]
    /\ UNCHANGED <<cache, calls, matcherVars, hostVars, active, owners>>

\* initialize(config) while the roster is still empty.
FirstInitializeBegin(t, path) ==
    /\ comparers = <<>>
    /\ InitializeBegin(t, path, "absent")

ApiNext ==
    \/ \E t \in Threads, path \in ApiPaths : InitializeRejected(t, path, "absent")
    \/ \E t \in Threads, path \in ApiPaths : FirstInitializeBegin(t, path)
    \/ LoadEntry
    \/ InitializeReturn
    \/ \E t \in Threads : InputNotMain(t)
    \/ \E t \in Threads, id \in PacketIds, data \in Blobs :
          InputBegin(t, id, "wellformed", data)
    \/ MatcherDecode
    \/ CompareStep
    \/ CompareReturn
    \/ \E t \in Threads : CacheExport(t)

ApiSpec == Init /\ [][ApiNext]_vars

---------------------------------------------------------------------------
(* Claims about the Cache, checked under CacheSpec. *)

\* The calls of the history that name the given id.
CallsNamingId(id) == {i \in 1..Len(calls) : calls[i].id = id}

\* The field arguments of the calls whose name argument is n, in call order.
RECURSIVE FieldsOf(_, _)
FieldsOf(history, n) ==
    IF history = <<>> THEN <<>>
    ELSE LET rest == FieldsOf(Tail(history), n)
         IN  IF Head(history).name = n THEN <<Head(history).field>> \o rest
             ELSE rest

\* messages[n], the empty sequence standing for a missing entry.
MessagesOf(c, n) == IF n \in DOMAIN c.messages THEN c.messages[n] ELSE <<>>

\* C1: id_known(id) is false as long as no update call has named id, is true
\* from the first update call naming it, and stays true under every further
\* update call (the history of calls only grows).
C1_IdKnownIffNamed ==
    \A id \in PacketIds : IdKnown(cache, id) <=> CallsNamingId(id) # {}

\* C1 witness: an id was named by an early call and stayed known over later
\* calls, while another id, never named, is unknown.
C1_Witness ==
    /\ Len(calls) = MaxCalls
    /\ \E id \in PacketIds : calls[1].id = id /\ IdKnown(cache, id)
    /\ \E id \in PacketIds : CallsNamingId(id) = {} /\ ~IdKnown(cache, id)

\* C2: after any sequence of update calls known_ids holds each id at most
\* once, with one id_map entry per id, and for every name n messages[n] is
\* exactly the field arguments of the calls named n, in call order,
\* duplicates kept; a name no call used has no entry.
C2_SingleIdAndFieldsInCallOrder ==
    /\ \A i, j \in 1..Len(cache.known_ids) :
          cache.known_ids[i] = cache.known_ids[j] => i = j
    /\ DOMAIN cache.id_map = {cache.known_ids[i] : i \in 1..Len(cache.known_ids)}
    /\ \A n \in Names :
          /\ MessagesOf(cache, n) = FieldsOf(calls, n)
          /\ n \in DOMAIN cache.messages <=> \E i \in 1..Len(calls) : calls[i].name = n

\* C2 witness: the same name and id were passed twice, once with each of two
\* different fields, and once more with a repeated field.
C2_Witness ==
    /\ Len(calls) = MaxCalls
    /\ calls[1].name = calls[2].name /\ calls[2].name = calls[3].name
    /\ calls[1].id = calls[2].id /\ calls[2].id = calls[3].id
    /\ calls[1].field # calls[2].field /\ calls[3].field = calls[1].field
    /\ Len(cache.known_ids) = 1

\* C3: an update(name2, id, field) whose id is already mapped to another name
\* leaves known_names, known_ids, id_map and name_map unchanged, and its only
\* effect is that field is appended to messages[name2].
C3_RemapOnlyAppendsField ==
    [][(calls' # calls) =>
         LET call == calls'[Len(calls')] IN
         (call.id \in DOMAIN cache.id_map /\ cache.id_map[call.id] # call.name) =>
            /\ cache'.known_names = cache.known_names
            /\ cache'.known_ids = cache.known_ids
            /\ cache'.id_map = cache.id_map
            /\ cache'.name_map = cache.name_map
            /\ cache'.id_map[call.id] # call.name
            /\ DOMAIN cache'.messages = DOMAIN cache.messages \cup {call.name}
            /\ cache'.messages[call.name] =
                  Append(MessagesOf(cache, call.name), call.field)
            /\ \A n \in DOMAIN cache.messages \ {call.name} :
                  cache'.messages[n] = cache.messages[n]]_vars

\* C3 witness: the last call named an id that an earlier call had mapped to a
\* different name; the field went under the new name.
C3_Witness ==
    /\ Len(calls) >= 2
    /\ LET call == calls[Len(calls)] IN
       /\ calls[1].id = call.id /\ calls[1].name # call.name
       /\ cache.id_map[call.id] = calls[1].name
       /\ call.name \in DOMAIN cache.messages
       /\ call.name \notin DOMAIN cache.name_map


---------------------------------------------------------------------------
(* Claims about the Matcher, checked under Spec. *)

\* The step is one iteration of the roster loop.
RosterStep == pc = "compare" /\ idx <= Len(comparers)

\* The roster loop invokes the Comparer it is at.
InvokesCurrent ==
    /\ Len(invoked') = Len(invoked) + 1
    /\ SubSeq(invoked', 1, Len(invoked)) = invoked
    /\ invoked'[Len(invoked')].comparer = idx

\* C4: a roster Comparer whose declared name the Cache maps to an id k at the
\* moment the loop reaches it is invoked if k is the incoming id and is not
\* invoked (and nothing else happens) if k differs from it.
C4_IdentityFilter ==
    [][RosterStep =>
         LET name == comparers[idx].name IN
         name \in DOMAIN cache.name_map =>
            IF cache.name_map[name] = feed.id
            THEN InvokesCurrent
            ELSE invoked' = invoked /\ cache' = cache]_vars

\* C4 witness: in one feed a Comparer bound to the incoming id was invoked and
\* a Comparer bound to another id was passed over.
C4_Witness ==
    /\ pc = "compare"
    /\ \E i, j \in 1..Len(comparers) :
          /\ i < idx /\ j < idx
          /\ comparers[i].name \in DOMAIN cache.name_map
          /\ cache.name_map[comparers[i].name] = feed.id
          /\ \E k \in 1..Len(invoked) : invoked[k].comparer = i
          /\ comparers[j].name \in DOMAIN cache.name_map
          /\ cache.name_map[comparers[j].name] # feed.id
          /\ \A k \in 1..Len(invoked) : invoked[k].comparer # j

\* The id the Cache first bound the name to: known_names and known_ids are
\* append-only and index-aligned.
FirstBoundId(c, name) ==
    LET first == CHOOSE i \in 1..Len(c.known_names) :
                    /\ c.known_names[i] = name
                    /\ \A j \in 1..(i - 1) : c.known_names[j] # name
    IN  c.known_ids[first]

\* C5: once the Cache has bound a Comparer's declared name N to an id i, the
\* Comparer named N is invoked, in every later feed, only for packets whose
\* id is i.
C5_RoutingNarrowsPermanently ==
    [][(RosterStep /\ invoked' # invoked) =>
         LET name == comparers[idx].name IN
         NameKnown(cache, name) => feed.id = FirstBoundId(cache, name)]_vars

\* C6: when the body or the header fails to decode, the call returns an
\* error, no Comparer is invoked in it and the Cache is unchanged.
C6_DecodeFailureAborts ==
    [][(pc = "decode" /\ (~Decodes(feed.header) \/ ~Decodes(feed.data))) =>
         /\ pc' = "idle"
         /\ ret'.op = "input"
         /\ ret'.status \in {"failed to decode packet", "failed to decode header"}
         /\ invoked = <<>> /\ invoked' = <<>>
         /\ cache' = cache /\ calls' = calls
         /\ comparers' = comparers]_vars

\* C6 witness: a feed whose header alone was malformed has returned its
\* error while the roster held Comparers.
C6_Witness ==
    /\ pc = "idle"
    /\ ret = Return("input", "failed to decode header")
    /\ Len(comparers) > 0
    /\ invoked = <<>>

\* Some Comparer invoked so far in this feed failed.
SomeFailed(history) == \E k \in 1..Len(history) : history[k].result = "Err"

\* C7: when a Comparer's compare fails during a feed, the loop goes on to the
\* next Comparer with the roster unchanged, every later Comparer the identity
\* filter lets through is invoked, and the feed returns success only after
\* the whole roster was visited.
C7_PartialFailureIsolation ==
    [][(pc = "compare") =>
         /\ (RosterStep /\ SomeFailed(invoked')) =>
               /\ pc' = "compare" /\ idx' = idx + 1
               /\ comparers' = comparers
         /\ (RosterStep /\ SomeFailed(invoked)
               /\ ~IdentityFilterSkips(cache, comparers[idx].name, feed.id)) =>
               InvokesCurrent
         /\ (SomeFailed(invoked) /\ pc' = "idle") =>
               /\ idx > Len(comparers)
               /\ ret' = Return("input", "ok")
               /\ comparers' = comparers]_vars

\* C7 witness: the feed is about to return; an early Comparer failed and a
\* later one was still invoked.
C7_Witness ==
    /\ pc = "compare"
    /\ idx > Len(comparers)
    /\ \E k \in 1..Len(invoked) :
          /\ invoked[k].result = "Err"
          /\ \E m \in (k + 1)..Len(invoked) : invoked[m].comparer > invoked[k].comparer
    /\ \E k \in 1..Len(warnings) : warnings[k].kind = "compare"

\* A script file that reaches Ready, by the state machine of the load: the top
\* level evaluated, compare is callable, PACKET_NAME is text, init did not fail.
ReachesReady(path) ==
    LET s == Script(path) IN
    /\ s.readable /\ s.eval = "ok" /\ s.compare
    /\ s.packet_name # NoName /\ s.init # "throws"

\* The Comparers of the script-extension files of a listing that reach Ready,
\* in enumeration order.
RECURSIVE ReadyComparers(_)
ReadyComparers(entries) ==
    IF entries = <<>> THEN <<>>
    ELSE LET e == Head(entries)
             rest == ReadyComparers(Tail(entries))
         IN  IF e.ok /\ e.ext = "js" /\ ReachesReady(e.path)
             THEN <<Comparer(e.path, Script(e.path).packet_name)>> \o rest
             ELSE rest

\* initialize has visited every directory entry and is about to return Ok.
InitializeDone == pc = "initialize" /\ idx > Len(listing)

\* C8: after a successful initialize over a directory the roster holds
\* exactly the script-extension files that reached Ready, in enumeration
\* order (so no Errored or Rejected file kept another from loading).
C8_RosterIsReadyFiles ==
    InitializeDone => comparers = ReadyComparers(listing)

\* The number of warnings the load pass logged for a script file.
WarningsFor(path) ==
    Cardinality({k \in 1..Len(warnings) :
                    warnings[k].kind = "script" /\ warnings[k].path = path})

\* C9: a file whose top level evaluates but defines no compare yields "no
\* comparer" with no warning; a file that cannot be read, parsed or
\* evaluated, that defines compare without a text PACKET_NAME, or whose init
\* fails yields an error and exactly one warning for that file.
C9_RejectedSilentErroredWarned ==
    \A k \in 1..Len(loaded) :
       LET s == Script(loaded[k].path) IN
       /\ (s.readable /\ s.eval = "ok" /\ ~s.compare) =>
             loaded[k].result = "None" /\ WarningsFor(loaded[k].path) = 0
       /\ (\/ ~s.readable
           \/ s.eval # "ok"
           \/ s.readable /\ s.eval = "ok" /\ s.compare /\ s.packet_name = NoName
           \/ s.readable /\ s.eval = "ok" /\ s.compare /\ s.packet_name # NoName
                 /\ s.init = "throws") =>
             loaded[k].result = "Err" /\ WarningsFor(loaded[k].path) = 1

\* C9 witness: a finished pass in which one file was Rejected silently and
\* another was reported as an error.
C9_Witness ==
    /\ InitializeDone
    /\ \E k \in 1..Len(loaded) :
          loaded[k].result = "None" /\ WarningsFor(loaded[k].path) = 0
    /\ \E k \in 1..Len(loaded) :
          loaded[k].result = "Err" /\ WarningsFor(loaded[k].path) = 1

\* C10: after initialize is called again the previous roster and Cache are
\* discarded: the roster holds each script file at most once, all of them
\* built by the latest pass, and the Cache holds only what was identified
\* since that pass began.
C10_ReinitializeRebuilds ==
    (InitializeDone /\ passes >= 2) =>
        /\ \A i, j \in 1..Len(comparers) :
              comparers[i].script = comparers[j].script => i = j
        /\ \A i \in 1..Len(comparers) :
              \E k \in 1..Len(loaded) : loaded[k].path = comparers[i].script
        /\ cache = Replay(EmptyCache, SubSeq(calls, passBase + 1, Len(calls)))


---------------------------------------------------------------------------
(* Further claims about the Cache, checked under CacheSpec. *)

\* C19: in every reachable Cache state known_names and known_ids have the
\* same length, which is the number of entries of id_map, and they are
\* index-aligned with it: id_map[known_ids[i]] = known_names[i].
C19_ParallelSequencesAligned ==
    /\ Len(cache.known_names) = Len(cache.known_ids)
    /\ Len(cache.known_ids) = Cardinality(DOMAIN cache.id_map)
    /\ \A i \in 1..Len(cache.known_ids) :
          /\ cache.known_ids[i] \in DOMAIN cache.id_map
          /\ i <= Len(cache.known_names)
          /\ cache.id_map[cache.known_ids[i]] = cache.known_names[i]

\* C19 witness: two ids were recorded under different names and a further
\* call named a known id again.
C19_Witness ==
    /\ Len(calls) = MaxCalls
    /\ Len(cache.known_ids) = 2
    /\ cache.known_names[1] # cache.known_names[2]
    /\ Cardinality(DOMAIN cache.id_map) = 2

\* C20: once name_map binds a name to an id no later update call changes the
\* id bound to that name, and each name appears at most once in known_names.
C20_NameBindingFirstWriteWins ==
    [][/\ \A n \in DOMAIN cache.name_map :
             n \in DOMAIN cache'.name_map /\ cache'.name_map[n] = cache.name_map[n]
       /\ \A i, j \in 1..Len(cache'.known_names) :
             cache'.known_names[i] = cache'.known_names[j] => i = j]_vars

---------------------------------------------------------------------------
(* Claims about threads and the public entry points, checked under ApiSpec. *)

\* C11: every compare dispatch of a Comparer runs on the thread that built
\* the Comparer's script context, whatever threads initialize and input are
\* called from.
C11_ContextRunsOnCreatingThread ==
    pc = "compare" =>
        \A k \in 1..Len(invoked) : active = {owners[invoked[k].comparer]}

\* C12: input called from a thread other than the main thread returns at
\* once: that thread never holds the MATCHER lock, so nothing is decoded and
\* no Comparer is invoked on its behalf.
C12_InputOffMainThreadRejected ==
    pc \in {"decode", "compare"} => "worker" \notin active

\* C13: initialize, input and cache exclude one another: at most one thread
\* is inside the Matcher, a call enters only when none is, and a cache()
\* snapshot is taken only between calls, never in the middle of a feed.
C13_EntryPointsMutuallyExclusive ==
    [][/\ Cardinality(active') <= 1
       /\ (active' # active /\ active' # {}) => (active = {} /\ pc = "idle")
       /\ snapshot' # snapshot =>
             /\ active = {} /\ active' = {}
             /\ pc = "idle" /\ feed = NoFeed
             /\ snapshot'.at = Len(calls)]_vars

\* A feed is running after a snapshot was taken, and has updated the Cache.
C13_Witness ==
    /\ snapshot.taken
    /\ pc = "compare"
    /\ active = {"main"}
    /\ Len(calls) > snapshot.at

\* C14: cache() returns the live Cache as it is at the call, changes neither
\* the Cache nor the roster, and what it returned stays what the Cache was at
\* that moment however the Cache is updated afterwards.
C14_ExportIsFaithfulSnapshot ==
    [][/\ snapshot' # snapshot =>
             /\ snapshot'.cache = cache
             /\ cache' = cache
             /\ comparers' = comparers
       /\ snapshot'.taken =>
             snapshot'.cache = Replay(EmptyCache, SubSeq(calls', 1, snapshot'.at))
       /\ (snapshot.taken /\ cache' # cache) => snapshot' = snapshot]_vars

\* A non-empty snapshot that the live Cache has since moved away from.
C14_Witness ==
    /\ snapshot.taken
    /\ snapshot.at >= 1
    /\ snapshot.cache.messages # EmptyCache.messages
    /\ Len(calls) > snapshot.at
    /\ cache # snapshot.cache

---------------------------------------------------------------------------
(* Claims about the host functions, checked under HostSpec. *)

\* The identify arguments the contract calls well-formed: a text name, a
\* numeric id and an object with the three field properties.
WellFormedIdentify(args) ==
    /\ Len(args) >= 3
    /\ args[1].type = "string"
    /\ args[2].type = "number"
    /\ args[3].type \in {"object", "accessor"}
    /\ DOMAIN args[3].value = {"field_name", "field_type", "field_id"}

\* C15: identify(name, id, field) with well-formed arguments performs
\* exactly one Cache.update(name, id, field); with a missing or ill-typed
\* argument it raises a sandbox error and leaves the Cache unchanged; in both
\* cases the call returns and the Cache lock is free afterwards.
C15_IdentifyUpdatesOnceOrErrors ==
    [][(host.fn = "identify" /\ host.pc \in {"locked", "getter"}) =>
          /\ host'.pc \in {"getter", "idle"}
          /\ host'.pc = "idle" =>
                /\ cacheLock' = "free"
                /\ IF WellFormedIdentify(host.args)
                   THEN /\ host'.result = "undefined"
                        /\ cache' = Update(cache, host.args[1].value,
                                           host.args[2].value, host.args[3].value)
                        /\ calls' = Append(calls, Call(host.args[1].value,
                                                       host.args[2].value,
                                                       host.args[3].value))
                   ELSE /\ host'.result = "error"
                        /\ cache' = cache
                        /\ calls' = calls]_vars

\* C16: isKnown(x) returns id_known(x) for a number, name_known(x) for a
\* text, raises a sandbox error for anything else, and never changes the
\* Cache.
C16_IsKnownDispatch ==
    [][(host.fn = "isKnown" /\ host.pc = "locked") =>
          /\ cache' = cache
          /\ host'.pc = "idle"
          /\ LET args == host.args
                 answer(b) == IF b THEN "true" ELSE "false"
             IN  IF Len(args) >= 1 /\ args[1].type = "number"
                 THEN host'.result = answer(IdKnown(cache, args[1].value))
                 ELSE IF Len(args) >= 1 /\ args[1].type = "string"
                 THEN host'.result = answer(NameKnown(cache, args[1].value))
                 ELSE host'.result = "error"]_vars

\* C17: env is read-only: whatever the script does, reading env yields the
\* environment snapshot.
C17_EnvReadOnly == env = EnvSnapshot

\* C18: every identify or isKnown call completes: the Cache lock is never
\* requested by a thread that already holds it.
C18_HostCallsComplete == host.pc \notin RelockOutcomes

---------------------------------------------------------------------------
(* Claims about the shape of the Cache, checked under CacheSpec. *)

\* C27: id_map and name_map are inverse to one another: every id maps to a
\* name that maps back to it, and every name maps to an id that maps back to
\* it, so the two maps have as many entries.
C27_MapsAreMutualInverses ==
    /\ \A id \in DOMAIN cache.id_map :
          /\ cache.id_map[id] \in DOMAIN cache.name_map
          /\ cache.name_map[cache.id_map[id]] = id
    /\ \A n \in DOMAIN cache.name_map :
          /\ cache.name_map[n] \in DOMAIN cache.id_map
          /\ cache.id_map[cache.name_map[n]] = n
    /\ Cardinality(DOMAIN cache.id_map) = Cardinality(DOMAIN cache.name_map)

\* C28: every name with an entry in messages is known: name_known holds for
\* it and name_map has it.
C28_RecordedNamesAreKnown ==
    \A n \in DOMAIN cache.messages :
        NameKnown(cache, n) /\ n \in DOMAIN cache.name_map

---------------------------------------------------------------------------
(* Claims about ids at the script boundary, checked under HostSpec. *)

\* C30: numeric ids cross the script boundary unchanged: identify with an id
\* outside 0..65535 binds no id, and isKnown(n) answers true only for an n
\* that is itself a bound id.
C30_IdsCrossFaithfully ==
    [][/\ (host.fn = "identify" /\ host.pc \in {"locked", "getter"}
             /\ host'.pc = "idle" /\ WellFormedIdentify(host.args)
             /\ host.args[2].value \notin 0..U16Max) =>
                /\ cache'.id_map = cache.id_map
                /\ cache'.known_ids = cache.known_ids
       /\ (host.fn = "isKnown" /\ host.pc = "locked" /\ host'.result = "true"
             /\ host.args[1].type = "number") =>
                host.args[1].value \in DOMAIN cache.id_map]_vars

---------------------------------------------------------------------------
(* Further claims about initialize, checked under Spec. *)

\* The step is an initialize call that returns an error.
InitializeFails == pc = "idle" /\ pc' = "idle" /\ ret'.op = "initialize"

\* C26: an initialize that fails (script directory missing or unreadable,
\* environment file unreadable) leaves the Matcher as it was: roster, Cache
\* and stored config.
C26_FailedInitializeChangesNothing ==
    [][InitializeFails =>
          /\ ret'.status # "ok"
          /\ comparers' = comparers
          /\ cache' = cache
          /\ config' = config]_vars

\* The step loads a script file that does not become a roster Comparer.
LoadsUnaccepted ==
    /\ pc = "initialize" /\ idx <= Len(listing)
    /\ listing[idx].ok /\ listing[idx].ext = "js"
    /\ ComparerFrom(listing[idx].path).tag # "Some"

\* C29: loading a script that ends Errored or Rejected leaves the Cache as it
\* was before the file was loaded.
C29_UnacceptedScriptLeavesCache ==
    [][LoadsUnaccepted => (cache' = cache /\ comparers' = comparers)]_vars

---------------------------------------------------------------------------
(* Claims about the order of the load and of the dispatch, checked under
   Spec. *)

\* C21: in a decoded feed every roster Comparer the identity filter lets
\* through is invoked exactly once, in roster order, and a Comparer whose
\* name the Cache does not map is invoked whatever the packet id.
C21_EachPassingComparerOnceInOrder ==
    [][pc = "compare" =>
          /\ RosterStep =>
                LET name == comparers[idx].name IN
                /\ idx' = idx + 1
                /\ ~IdentityFilterSkips(cache, name, feed.id) => InvokesCurrent
                /\ IdentityFilterSkips(cache, name, feed.id) => invoked' = invoked
                /\ name \notin DOMAIN cache.name_map => InvokesCurrent
          /\ \A a, b \in 1..Len(invoked') :
                a < b => invoked'[a].comparer < invoked'[b].comparer
          /\ \A a \in 1..Len(invoked') : invoked'[a].comparer < idx'
          /\ pc' = "idle" => idx > Len(comparers)]_vars

\* C21 witness: the feed is about to return; a Comparer with an unmapped name
\* and a later Comparer were both invoked, and one Comparer was passed over.
C21_Witness ==
    /\ pc = "compare"
    /\ idx > Len(comparers)
    /\ Len(invoked) >= 2
    /\ Len(invoked) < Len(comparers)
    /\ \E k \in 1..Len(invoked) :
          comparers[invoked[k].comparer].name \notin DOMAIN CacheAtBegin.name_map

LoadSequence == <<"read", "evaluate", "compare", "packet_name", "init">>

\* C22: for each script file the load runs evaluate, the compare check, the
\* PACKET_NAME check and init in this order; init runs at most once, only
\* when compare is callable and PACKET_NAME is text, never for a Rejected or
\* unparsable script; no load step happens during a feed, and a Comparer
\* once in the roster stays there.
C22_LoadLifecycleOrder ==
    [][/\ \A k \in 1..Len(loaded') :
             LET t == loaded'[k].steps
                 file == Script(loaded'[k].path)
             IN  /\ Len(t) <= Len(LoadSequence)
                 /\ t = SubSeq(LoadSequence, 1, Len(t))
                 /\ (\E i \in 1..Len(t) : t[i] = "init") =>
                       /\ file.eval = "ok" /\ file.compare
                       /\ file.packet_name # NoName
                       /\ loaded'[k].result # "None"
                 /\ loaded'[k].result = "Some" =>
                       (file.init # "none" <=> t[Len(t)] = "init")
       /\ pc \in {"decode", "compare"} => loaded' = loaded
       /\ Len(comparers') >= Len(comparers)
       /\ SubSeq(comparers', 1, Len(comparers)) = comparers]_vars

\* C22 witness: a load pass is about to return in which one file ran init
\* and became a Comparer and another, which has an init, was Rejected
\* without running it.
C22_Witness ==
    /\ InitializeDone
    /\ \E k \in 1..Len(loaded) :
          /\ loaded[k].result = "Some"
          /\ loaded[k].steps[Len(loaded[k].steps)] = "init"
    /\ \E k \in 1..Len(loaded) :
          /\ loaded[k].result = "None"
          /\ Script(loaded[k].path).init # "none"

\* C25: the identity filter reads the Cache as it is when the loop reaches
\* the Comparer: a Comparer whose name an earlier Comparer of the same feed
\* bound to another id is skipped in this feed, though the Cache at the
\* start of the feed would have let it through.
C25_FilterReadsLiveCache ==
    [][RosterStep =>
          LET name == comparers[idx].name IN
          /\ IdentityFilterSkips(cache, name, feed.id) =>
                (invoked' = invoked /\ cache' = cache /\ idx' = idx + 1)
          /\ ~IdentityFilterSkips(cache, name, feed.id) => InvokesCurrent]_vars

\* C25 witness: a Comparer was passed over in this feed because of a binding
\* made during the feed.
C25_Witness ==
    /\ pc = "compare"
    /\ \E j \in 1..Len(comparers) :
          /\ j < idx
          /\ \A k \in 1..Len(invoked) : invoked[k].comparer # j
          /\ ~IdentityFilterSkips(CacheAtBegin, comparers[j].name, feed.id)
          /\ IdentityFilterSkips(cache, comparers[j].name, feed.id)

---------------------------------------------------------------------------
(* Claims about require, checked under RequireSpec. *)

\* C23: every require call evaluates the named file, and the value it
\* returns is the one this evaluation assigned to module.exports: it is what
\* requiring the file in a fresh sandbox returns, whatever files were
\* required before.
C23_RequireReturnsOwnExports ==
    [][(<<required, evals>>' # <<required, evals>>) =>
          LET file == required'.file
              alone == JsRequire(InitialExports, <<JsString(file)>>)
          IN  /\ RequireFile(file).readable => evals' = Append(evals, file)
              /\ required'.ok =>
                    /\ required'.value = alone.value
                    /\ RequireFile(file).assigns # NoAssign =>
                          required'.value = RequireFile(file).assigns]_vars


\* C24: on every converted message, a nested one included, the kind getter
\* K(k) returns the value of field k when the field exists with kind K and
\* undefined otherwise, get(k) returns the value of every present field, and
\* the six all<K>() listings together list each id of keys() exactly once.
KindNames == {Kinds[i] : i \in DOMAIN Kinds}

TimesListed(this, id) ==
    Cardinality({<<i, j>> \in (DOMAIN Kinds) \X (1..MaxFieldId) :
                    LET all == JsGetAll(Kinds[i], this) IN
                    /\ all.ok
                    /\ j \in DOMAIN all.entries
                    /\ all.entries[j].id = id})

C24_GettersAgreeWithMessage ==
    LET m == receiver.inner
        k == reply.arg
    IN  /\ reply.fn \in KindNames =>
              /\ reply.ok
              /\ reply.value = IF k \in DOMAIN m /\ m[k].kind = reply.fn
                               THEN TryIntoJs(m[k])
                               ELSE JsUndefined
        /\ (reply.fn = "get" /\ k \in DOMAIN m) =>
              /\ reply.ok
              /\ reply.value = TryIntoJs(m[k])
        /\ reply.fn = "keys" =>
              /\ reply.ok
              /\ {reply.entries[j].id : j \in DOMAIN reply.entries} = DOMAIN m
              /\ \A id \in DOMAIN m : TimesListed(receiver, id) = 1
              /\ \A id \in (1..MaxFieldId) \ DOMAIN m : TimesListed(receiver, id) = 0

====
